---- MODULE Spec2Model ----
(***************************************************************************)
(* ps5ctrl: DualSenseController (src/ps5ctrl/controller.py) driven through *)
(* the device double of src/tests/test_cycle_modes.py.  The program is a   *)
(* single thread of control: the device invokes the subscribed callbacks   *)
(* synchronously from inside sendReport, so the model keeps an explicit    *)
(* call stack and executes one statement group of the top frame per step.  *)
(***************************************************************************)
EXTENDS Integers, Sequences, FiniteSets, TLC

VARIABLES
    force_level,    \* _r2_force_level / _l2_force_level, by channel
    mode_index,     \* _r2_mode_index / _l2_mode_index, by channel
    handling,       \* _handling_r2_force / _handling_l2_force, by channel
    callbacks,      \* ds.<button>_pressed._callbacks, by button
    ds,             \* state staged on the device object (motors, triggers)
    sent,           \* state last transmitted by sendReport
    handle,         \* device handle: "new", "open", "released"
    stack,          \* call stack, innermost frame last
    exc,            \* exception in flight ("none" when there is none)
    escaped,        \* exception that left the last top-level call
    echo,           \* buttons whose pressed-event the device may re-fire on a flush
    faults,         \* flushes that may still fail with an I/O error
    calls,          \* top-level calls still allowed in this run
    done_force,     \* outermost cycle_force calls ended, by channel (mod NumForceLevels)
    done_mode,      \* outermost cycle_mode calls ended, by channel (mod NumModes)
    close_calls,    \* number of close() invocations so far
    rl_closes,      \* number of close() invocations made by read_loop
    intr,           \* where in read_loop interrupts were delivered
    query,          \* last get_joystick_state call: stick, snapshot, outcome
    rl              \* read_loop: "none", "running", "returned", "raised"

vars == <<force_level, mode_index, handling, callbacks, ds, sent, handle, stack,
          exc, escaped, echo, faults, calls, done_force, done_mode, close_calls,
          rl_closes, intr, rl, query>>

session == <<force_level, mode_index, handling>>
ghost == <<done_force, done_mode, close_calls, rl_closes, intr>>

-----------------------------------------------------------------------------
(* Program constants *)

Channels == {"r2", "l2"}
Buttons == {"cross", "circle", "square", "triangle"}

\* DummyTriggerModes: list(TriggerModes) in declaration order
TriggerModes == <<"Off", "Rigid", "Mode2">>
NumModes == Len(TriggerModes)

\* (level + 1) % 7 and forces = [0] * 7
NumForceLevels == 7
NumSlots == 7
\* set_r2_force / set_l2_force write slot 6 (0-based), the 7th slot
ForceSlot == 6
\* for _ in range(10) in test_cycle_modes_no_recursion
TestRuns == 10

\* bindings made by read_loop: button -> handler's operation and channel
Binding(b) ==
    CASE b = "cross"    -> [kind |-> "force", ch |-> "r2"]
      [] b = "circle"   -> [kind |-> "mode",  ch |-> "r2"]
      [] b = "square"   -> [kind |-> "mode",  ch |-> "l2"]
      [] b = "triangle" -> [kind |-> "force", ch |-> "l2"]

\* the button whose handler cycle_<ch>_mode unsubscribes and resubscribes
ModeButton(ch) == IF ch = "r2" THEN "circle" ELSE "square"

\* registration order of the four handlers in read_loop
RegOrder == <<"cross", "circle", "square", "triangle">>

\* the events sendReport re-fires, in the device's order (circle before
\* square, as DummyDS.sendReport does), restricted to the buttons held
EchoOrder == <<"cross", "circle", "square", "triangle">>
Echoed(held) == SelectSeq(EchoOrder, LAMBDA b : b \in held)

-----------------------------------------------------------------------------
(* Bounds of the model *)

\* top-level calls per run in the full session specification
MaxCalls == 1
\* flush failures per run in the specifications that allow them
MaxFaults == 1
\* motor intensity a client may have left staged on the device object
MaxMotor == 1
\* close() invocations per run
MaxCloses == 2
\* largest magnitude of a stick axis in a snapshot
MaxAxis == 1

-----------------------------------------------------------------------------
(* Device object (DummyDS / pydualsense): staged triggers and motors *)

Trig(ch) == IF ch = "r2" THEN "triggerR" ELSE "triggerL"

ZeroForces == [i \in 0..(NumSlots - 1) |-> 0]

\* trigger.setMode(mode)
setMode(t, mode) == [t EXCEPT !.mode = mode]

\* trigger.setForce(slot, force)
setForce(t, slot, force) == [t EXCEPT !.forces[slot] = force]

\* a device object as constructed: triggers Off, forces [0] * 7
NewDevice(rm, lm) ==
    [rightMotor |-> rm, leftMotor |-> lm,
     triggerR |-> [mode |-> "Off", forces |-> ZeroForces],
     triggerL |-> [mode |-> "Off", forces |-> ZeroForces]]

-----------------------------------------------------------------------------
(* Event (DummyEvent): an ordered list of callbacks *)

\* __iadd__: self._callbacks.append(cb)
iadd(cbs, cb) == Append(cbs, cb)

\* list.remove(cb) removes the first occurrence; callers check membership first
RECURSIVE RemoveFirst(_, _)
RemoveFirst(cbs, cb) ==
    IF cbs = <<>> THEN <<>>
    ELSE IF Head(cbs) = cb THEN Tail(cbs)
    ELSE <<Head(cbs)>> \o RemoveFirst(Tail(cbs), cb)

\* mutant: the handler stays subscribed during the flush
isub_keep(cbs, cb) == cbs

\* __isub__: self._callbacks.remove(cb)
isub(cbs, cb) == RemoveFirst(cbs, cb)

Subscribed(cbs, cb) == \E i \in 1..Len(cbs) : cbs[i] = cb

-----------------------------------------------------------------------------
(* Pure parts of the controller's methods *)

\* mutant: the level is stepped without the wrap at 7
NextForceLevel_nowrap(l) == IF l + 1 > NumForceLevels THEN l ELSE l + 1

\* (self._r2_force_level + 1) % 7
NextForceLevel(l) == (l + 1) % NumForceLevels

\* (self._r2_mode_index + 1) % len(self._trigger_modes)
NextModeIndex(i) == (i + 1) % NumModes

\* self._trigger_modes[index], the list being 0-based
ModeAt(i) == TriggerModes[i + 1]

\* mutant: the reentrancy guard is never consulted
Suppressed_never(ch) == FALSE

\* if self._handling_r2_force: return
Suppressed(ch) == handling[ch]

\* mutant: the handler acts on the release as well
Pressed_always(val) == TRUE

\* if val: in the four button handlers
Pressed(val) == val

\* set_r2_force / set_l2_force, up to the flush
set_force(d, ch, force) ==
    [d EXCEPT ![Trig(ch)] = setForce(setMode(@, "Rigid"), ForceSlot, force)]

\* cycle_r2_mode / cycle_l2_mode: self.ds.triggerR.setMode(mode)
set_mode(d, ch, mode) == [d EXCEPT ![Trig(ch)] = setMode(@, mode)]

\* close(), up to the flush
close_stage(d) ==
    [d EXCEPT !.rightMotor = 0, !.leftMotor = 0,
              !.triggerR = [setMode(@, "Off") EXCEPT !.forces = ZeroForces],
              !.triggerL = [setMode(@, "Off") EXCEPT !.forces = ZeroForces]]

-----------------------------------------------------------------------------
(* get_joystick_state *)

\* characters of the stick names a caller may pass, as <<lower, upper>> pairs;
\* "2" and "_" have no case
Cased == {<<"l", "L">>, <<"e", "E">>, <<"f", "F">>, <<"t", "T">>,
          <<"r", "R">>, <<"i", "I">>, <<"g", "G">>, <<"h", "H">>}
Uncased == {"2", "_"}
Chars == {p[1] : p \in Cased} \cup {p[2] : p \in Cased} \cup Uncased

\* mutant: the name is compared as given
lower_char_asis(c) == c

\* str.lower() on one character
lower_char(c) ==
    IF \E p \in Cased : p[2] = c
    THEN (CHOOSE p \in Cased : p[2] = c)[1]
    ELSE c

\* stick.lower()
lower(str) == [i \in 1..Len(str) |-> lower_char(str[i])]

Left == <<"l", "e", "f", "t">>
Right == <<"r", "i", "g", "h", "t">>

Snapshot(has, lx, ly, rx, ry) ==
    [has |-> has, lx |-> lx, ly |-> ly, rx |-> rx, ry |-> ry]
Outcome(kind, msg, x, y) == [kind |-> kind, msg |-> msg, x |-> x, y |-> y]

\* the stick names and state snapshots a caller may pass
upper_char(c) == IF \E p \in Cased : p[1] = c
                 THEN (CHOOSE p \in Cased : p[1] = c)[2]
                 ELSE c
Spellings(word) ==
    {[i \in 1..Len(word) |-> IF up[i] THEN upper_char(word[i]) ELSE word[i]] :
        up \in [1..Len(word) -> BOOLEAN]}
Misspelt == {<<>>, <<"l">>, <<"l", "e", "f">>, <<"l", "e", "f", "t", "_">>,
             <<"L", "2">>, <<"t", "h", "g", "i", "r">>,
             <<"r", "i", "g", "t", "h">>, <<"R", "I", "G", "H", "T", "2">>,
             <<"l", "e", "f", "t", "r", "i", "g", "h", "t">>}
StickNames == Spellings(Left) \cup Spellings(Right) \cup Misspelt
Axis == (0 - MaxAxis)..MaxAxis
Snapshots ==
    {Snapshot(TRUE, lx, ly, rx, ry) : lx \in Axis, ly \in Axis,
                                      rx \in Axis, ry \in Axis}
        \cup {Snapshot(FALSE, 0, 0, 0, 0)}

\* no query made yet
NoQuery == [stick |-> <<>>, state |-> Snapshot(FALSE, 0, 0, 0, 0),
            out |-> Outcome("none", "", 0, 0)]

\* the method's outcome for a stick name and a state snapshot: the (x, y)
\* pair, or the ValueError of line 215 or of line 223.  The axes of a
\* snapshot are integers, which int() returns as they are.
get_joystick_state(stick, state) ==
    LET name == lower(stick)
        prefix == IF name = Left THEN "l" ELSE "r"
    IN IF name \notin {Left, Right}
       THEN Outcome("ValueError", "stick must be 'left' or 'right'", 0, 0)
       ELSE IF ~state.has
       THEN Outcome("ValueError", "Joystick state attributes missing", 0, 0)
       ELSE Outcome("value", "",
                    IF prefix = "l" THEN state.lx ELSE state.rx,
                    IF prefix = "l" THEN state.ly ELSE state.ry)

-----------------------------------------------------------------------------
(* Call stack *)

Frame(op, arg, pc) ==
    [op |-> op, arg |-> arg, pc |-> pc, val |-> TRUE, todo |-> <<>>,
     cbs |-> <<>>, outer |-> FALSE, pend |-> "none"]

Depth == Len(stack)
Top == stack[Depth]
Popped == SubSeq(stack, 1, Depth - 1)
Retop(f) == [stack EXCEPT ![Depth] = f]
At(op, pc) == Depth > 0 /\ Top.op = op /\ Top.pc = pc
Running(op, pc) == exc = "none" /\ At(op, pc)

\* a frame of operation op on channel/button arg is on the stack
Active(op, arg) == \E i \in 1..Depth : stack[i].op = op /\ stack[i].arg = arg

\* no call is executing, or read_loop is blocked in time.sleep
Sleeping == At("read_loop", "sleep")
Idle == exc = "none" /\ (Depth = 0 \/ Sleeping)

Call(f) == stack' = Append(stack, f)
CallFrom(pc, f) == stack' = Append(Retop([Top EXCEPT !.pc = pc]), f)
Return == stack' = Popped

\* the frame of the cycle operation bound to button b
CycleFrame(b) ==
    LET k == Binding(b) IN
    [Frame(IF k.kind = "force" THEN "cycle_force" ELSE "cycle_mode", k.ch, "start")
        EXCEPT !.outer = ~Active(IF k.kind = "force" THEN "cycle_force"
                                 ELSE "cycle_mode", k.ch)]

HandlerFrame(b, v) == [Frame("handler", b, "start") EXCEPT !.val = v]
EventFrame(b, v) == [Frame("event", b, "call") EXCEPT !.val = v, !.cbs = callbacks[b]]

-----------------------------------------------------------------------------
(* Button handlers: _on_cross_pressed .. _on_triangle_pressed *)

on_pressed ==
    /\ Running("handler", "start")
    /\ IF Pressed(Top.val)
       THEN CallFrom("ret", CycleFrame(Top.arg))
       ELSE Return
    /\ UNCHANGED <<session, callbacks, ds, sent, handle, exc, escaped, echo,
                   faults, calls, ghost, rl, query>>

on_pressed_return ==
    /\ Running("handler", "ret")
    /\ Return
    /\ UNCHANGED <<session, callbacks, ds, sent, handle, exc, escaped, echo,
                   faults, calls, ghost, rl, query>>

-----------------------------------------------------------------------------
(* cycle_r2_force / cycle_l2_force *)

cycle_force_guard ==
    /\ Running("cycle_force", "start")
    /\ IF Suppressed(Top.arg)
       THEN Return /\ UNCHANGED handling
       ELSE /\ handling' = [handling EXCEPT ![Top.arg] = TRUE]
            /\ stack' = Retop([Top EXCEPT !.pc = "try"])
    /\ UNCHANGED <<force_level, mode_index, callbacks, ds, sent, handle, exc,
                   escaped, echo, faults, calls, ghost, rl, query>>

\* the try body up to the flush inside set_<ch>_force
cycle_force_body ==
    /\ Running("cycle_force", "try")
    /\ LET ch == Top.arg
           level == NextForceLevel(force_level[ch])
       IN /\ force_level' = [force_level EXCEPT ![ch] = level]
          /\ ds' = set_force(ds, ch, level)
    /\ CallFrom("finally", Frame("sendReport", Top.arg, "send"))
    /\ UNCHANGED <<mode_index, handling, callbacks, sent, handle, exc, escaped,
                   echo, faults, calls, ghost, rl, query>>

\* mutant: the guard is cleared after the try statement, not in a finally
release_guard_after_try(ch) ==
    IF exc = "none" THEN [handling EXCEPT ![ch] = FALSE] ELSE handling

\* self._handling_<ch>_force = False
release_guard(ch) == [handling EXCEPT ![ch] = FALSE]

\* finally: runs whether the flush returned or raised
cycle_force_finally ==
    /\ At("cycle_force", "finally")
    /\ handling' = release_guard(Top.arg)
    /\ done_force' = IF Top.outer /\ exc = "none"
                     THEN [done_force EXCEPT ![Top.arg] = (@ + 1) % NumForceLevels]
                     ELSE done_force
    /\ Return
    /\ UNCHANGED <<force_level, mode_index, callbacks, ds, sent, handle, exc,
                   escaped, echo, faults, calls, done_mode, close_calls,
                   rl_closes, intr, rl, query>>

-----------------------------------------------------------------------------
(* cycle_r2_mode / cycle_l2_mode *)

\* up to the flush; list.remove raises ValueError when the handler is absent
cycle_mode_start ==
    /\ Running("cycle_mode", "start")
    /\ LET ch == Top.arg
           b == ModeButton(ch)
           index == NextModeIndex(mode_index[ch])
       IN /\ mode_index' = [mode_index EXCEPT ![ch] = index]
          /\ ds' = set_mode(ds, ch, ModeAt(index))
          /\ IF Subscribed(callbacks[b], b)
             THEN /\ callbacks' = [callbacks EXCEPT ![b] = isub(@, b)]
                  /\ CallFrom("finally", Frame("sendReport", ch, "send"))
                  /\ UNCHANGED exc
             ELSE /\ exc' = "ValueError"
                  /\ Return
                  /\ UNCHANGED callbacks
    /\ UNCHANGED <<force_level, handling, sent, handle, escaped, echo, faults,
                   calls, ghost, rl, query>>

\* mutant: the handler is subscribed again after the try statement, not in
\* a finally
resubscribe_after_try(b) ==
    IF exc = "none" THEN [callbacks EXCEPT ![b] = iadd(@, b)] ELSE callbacks

\* self.ds.<button>_pressed += self._on_<button>_pressed
resubscribe(b) == [callbacks EXCEPT ![b] = iadd(@, b)]

\* finally: runs whether the flush returned or raised
cycle_mode_finally ==
    /\ At("cycle_mode", "finally")
    /\ callbacks' = resubscribe(ModeButton(Top.arg))
    /\ done_mode' = IF Top.outer /\ exc = "none"
                    THEN [done_mode EXCEPT ![Top.arg] = (@ + 1) % NumModes]
                    ELSE done_mode
    /\ Return
    /\ UNCHANGED <<session, ds, sent, handle, exc, escaped, echo, faults, calls,
                   done_force, close_calls, rl_closes, intr, rl, query>>

-----------------------------------------------------------------------------
(* Device: sendReport and the events it re-fires *)

\* the staged state is transmitted; the device then echoes the held buttons
sendReport ==
    /\ Running("sendReport", "send")
    /\ sent' = ds
    /\ stack' = Retop([Top EXCEPT !.pc = "echo", !.todo = Echoed(echo)])
    /\ UNCHANGED <<session, callbacks, ds, handle, exc, escaped, echo, faults,
                   calls, ghost, rl, query>>

\* the write to the device fails: nothing is transmitted, the error propagates
sendReport_fail ==
    /\ Running("sendReport", "send")
    /\ faults > 0
    /\ faults' = faults - 1
    /\ exc' = "IOError"
    /\ Return
    /\ UNCHANGED <<session, callbacks, ds, sent, handle, escaped, echo, calls,
                   ghost, rl, query>>

\* each echoed button's pressed-event is fired once, with value True
sendReport_echo ==
    /\ Running("sendReport", "echo")
    /\ IF Top.todo = <<>>
       THEN Return
       ELSE stack' = Append(Retop([Top EXCEPT !.todo = Tail(@)]),
                            EventFrame(Head(Top.todo), TRUE))
    /\ UNCHANGED <<session, callbacks, ds, sent, handle, exc, escaped, echo,
                   faults, calls, ghost, rl, query>>

\* DummyEvent.__call__: for cb in list(self._callbacks): cb(*args)
event_call ==
    /\ Running("event", "call")
    /\ IF Top.cbs = <<>>
       THEN Return
       ELSE stack' = Append(Retop([Top EXCEPT !.cbs = Tail(@)]),
                            HandlerFrame(Head(Top.cbs), Top.val))
    /\ UNCHANGED <<session, callbacks, ds, sent, handle, exc, escaped, echo,
                   faults, calls, ghost, rl, query>>

-----------------------------------------------------------------------------
(* close *)

\* motors and triggers are reset on the device object, then flushed
close ==
    /\ Running("close", "start")
    /\ ds' = close_stage(ds)
    /\ CallFrom("release", Frame("sendReport", "", "send"))
    /\ UNCHANGED <<session, callbacks, sent, handle, exc, escaped, echo, faults,
                   calls, ghost, rl, query>>

\* self.ds.close()
close_release ==
    /\ Running("close", "release")
    /\ handle' = "released"
    /\ Return
    /\ UNCHANGED <<session, callbacks, ds, sent, exc, escaped, echo, faults,
                   calls, ghost, rl, query>>

-----------------------------------------------------------------------------
(* read_loop *)

\* self.ds.<button>_pressed += self._on_<button>_pressed, one per step
read_loop_register ==
    /\ Running("read_loop", "reg")
    /\ LET b == Head(Top.cbs)
           rest == Tail(Top.cbs)
       IN /\ callbacks' = [callbacks EXCEPT ![b] = iadd(@, b)]
          /\ stack' = Retop([Top EXCEPT !.cbs = rest,
                                        !.pc = IF rest = <<>> THEN "sleep" ELSE "reg"])
    /\ UNCHANGED <<session, ds, sent, handle, exc, escaped, echo, faults, calls,
                   ghost, rl, query>>

\* mutant: the except clause is missing, try/finally alone remains
Catches_nothing(e) == FALSE

\* except KeyboardInterrupt:
Catches(e) == e = "KeyboardInterrupt"

\* an exception reaches read_loop's frame
read_loop_raise ==
    /\ exc # "none"
    /\ Depth > 0
    /\ Top.op = "read_loop"
    /\ CASE Top.pc = "reg" ->
              \* outside the try statement: nothing catches it
              /\ Return
              /\ rl' = "raised"
              /\ UNCHANGED exc
         [] Top.pc = "sleep" /\ Catches(exc) ->
              \* except KeyboardInterrupt:
              /\ stack' = Retop([Top EXCEPT !.pc = "except"])
              /\ exc' = "none"
              /\ UNCHANGED rl
         [] Top.pc = "exit" ->
              \* close() raised inside the finally clause
              /\ Return
              /\ rl' = "raised"
              /\ UNCHANGED exc
         [] OTHER ->
              \* inside the try statement, not caught: finally runs, then re-raises
              /\ stack' = Retop([Top EXCEPT !.pc = "finally", !.pend = exc])
              /\ exc' = "none"
              /\ UNCHANGED rl
    /\ UNCHANGED <<session, callbacks, ds, sent, handle, escaped, echo, faults,
                   calls, ghost, query>>

\* print("Stopping controller listener...")
read_loop_except ==
    /\ Running("read_loop", "except")
    /\ stack' = Retop([Top EXCEPT !.pc = "finally"])
    /\ UNCHANGED <<session, callbacks, ds, sent, handle, exc, escaped, echo,
                   faults, calls, ghost, rl, query>>

\* finally: self.close()
read_loop_finally ==
    /\ Running("read_loop", "finally")
    /\ CallFrom("exit", Frame("close", "", "start"))
    /\ close_calls' = close_calls + 1
    /\ rl_closes' = rl_closes + 1
    /\ UNCHANGED <<session, callbacks, ds, sent, handle, exc, escaped, echo,
                   faults, calls, done_force, done_mode, intr, rl, query>>

\* close() returned: read_loop returns, or re-raises what the try left pending
read_loop_exit ==
    /\ Running("read_loop", "exit")
    /\ Return
    /\ exc' = Top.pend
    /\ rl' = IF Top.pend = "none" THEN "returned" ELSE "raised"
    /\ UNCHANGED <<session, callbacks, ds, sent, handle, escaped, echo, faults,
                   calls, ghost, query>>

-----------------------------------------------------------------------------
(* Exceptions *)

\* frames with no handler of their own: the exception leaves them
propagate ==
    /\ exc # "none"
    /\ Depth > 0
    /\ Top.op \in {"handler", "event", "sendReport", "close", "main"}
    /\ Return
    /\ UNCHANGED <<session, callbacks, ds, sent, handle, exc, escaped, echo,
                   faults, calls, ghost, rl, query>>

\* the exception leaves the outermost call and reaches the caller
escape ==
    /\ exc # "none"
    /\ Depth = 0
    /\ escaped' = exc
    /\ exc' = "none"
    /\ UNCHANGED <<session, callbacks, ds, sent, handle, stack, echo, faults,
                   calls, ghost, rl, query>>

-----------------------------------------------------------------------------
(* Environment: the client's calls, the device's events, the interrupt *)

\* controller.open(): self.ds.init()
open ==
    /\ exc = "none" /\ Depth = 0
    /\ handle = "new"
    /\ handle' = "open"
    /\ UNCHANGED <<session, callbacks, ds, sent, stack, exc, escaped, echo,
                   faults, calls, ghost, rl, query>>

\* a direct call of a button handler: ctrl._on_circle_pressed(True);
\* cost is what the call takes from the run's budget of top-level calls
invoke(b, v, cost) ==
    /\ exc = "none" /\ Depth = 0
    /\ calls >= cost
    /\ calls' = calls - cost
    /\ Call(HandlerFrame(b, v))
    /\ escaped' = "none"
    /\ UNCHANGED <<session, callbacks, ds, sent, handle, exc, echo, faults,
                   ghost, rl, query>>

\* the device fires a button's pressed-event while read_loop sleeps
fire(b, v) ==
    /\ exc = "none" /\ Sleeping
    /\ calls > 0
    /\ calls' = calls - 1
    /\ Call(EventFrame(b, v))
    /\ UNCHANGED <<session, callbacks, ds, sent, handle, exc, escaped, echo,
                   faults, ghost, rl, query>>

\* a direct call of close()
call_close ==
    /\ exc = "none" /\ Depth = 0
    /\ close_calls < MaxCloses
    /\ close_calls' = close_calls + 1
    /\ Call(Frame("close", "", "start"))
    /\ escaped' = "none"
    /\ UNCHANGED <<session, callbacks, ds, sent, handle, exc, echo, faults,
                   calls, done_force, done_mode, rl_closes, intr, rl, query>>

\* controller.read_loop(), as debug_inputs.main calls it
call_read_loop ==
    /\ exc = "none" /\ Depth = 0
    /\ rl = "none" /\ handle = "open"
    /\ rl' = "running"
    /\ Call([Frame("read_loop", "", "reg") EXCEPT !.cbs = RegOrder])
    /\ escaped' = "none"
    /\ UNCHANGED <<session, callbacks, ds, sent, handle, exc, echo, faults,
                   calls, ghost, query>>

\* CTRL+C while read_loop itself is executing
interrupt ==
    /\ exc = "none"
    /\ Depth > 0
    /\ Top.op = "read_loop"
    /\ Top.pc \in {"reg", "sleep", "except"}
    /\ exc' = "KeyboardInterrupt"
    /\ intr' = intr \cup {Top.pc}
    /\ UNCHANGED <<session, callbacks, ds, sent, handle, stack, escaped, echo,
                   faults, calls, done_force, done_mode, close_calls, rl_closes, rl, query>>

-----------------------------------------------------------------------------
(* debug_inputs.main: construct, open, read_loop, nothing caught.  The      *)
(* frame's arg is the machine the script runs on: "ok", "nolib" (the         *)
(* import of pydualsense failed and left None) or "nodevice" (no controller *)
(* that ds.init() could open).                                               *)

Machines == {"ok", "nolib", "nodevice"}

\* pydualsense is None
import_failed(machine) == machine = "nolib"

\* mutant: open() reports nothing when the device cannot be initialised
init_raises_never(machine) == FALSE

\* self.ds.init() raises
init_raises(machine) == machine = "nodevice"

\* controller = DualSenseController()
main_construct ==
    /\ Running("main", "construct")
    /\ IF import_failed(Top.arg)
       THEN exc' = "ImportError" /\ Return
       ELSE exc' = exc /\ stack' = Retop([Top EXCEPT !.pc = "open"])
    /\ UNCHANGED <<session, callbacks, ds, sent, handle, escaped, echo,
                   faults, calls, ghost, rl, query>>

\* controller.open()
main_open ==
    /\ Running("main", "open")
    /\ IF init_raises(Top.arg)
       THEN exc' = "DeviceError" /\ Return /\ handle' = handle
       ELSE exc' = exc /\ handle' = "open"
            /\ stack' = Retop([Top EXCEPT !.pc = "read_loop"])
    /\ UNCHANGED <<session, callbacks, ds, sent, escaped, echo, faults, calls,
                   ghost, rl, query>>

\* controller.read_loop()
main_read_loop ==
    /\ Running("main", "read_loop")
    /\ rl' = "running"
    /\ CallFrom("done", [Frame("read_loop", "", "reg") EXCEPT !.cbs = RegOrder])
    /\ UNCHANGED <<session, callbacks, ds, sent, handle, exc, escaped, echo,
                   faults, calls, ghost, query>>

\* main returns
main_done ==
    /\ Running("main", "done")
    /\ Return
    /\ UNCHANGED <<session, callbacks, ds, sent, handle, exc, escaped, echo,
                   faults, calls, ghost, rl, query>>

\* a client's call of get_joystick_state while nothing else runs, taken
\* from the run's budget of top-level calls
call_get_joystick_state ==
    /\ exc = "none" /\ Depth = 0
    /\ calls > 0
    /\ calls' = calls - 1
    /\ \E stick \in StickNames, state \in Snapshots :
          query' = [stick |-> stick, state |-> state,
                    out |-> get_joystick_state(stick, state)]
    /\ UNCHANGED <<session, callbacks, ds, sent, handle, stack, exc, escaped,
                   echo, faults, ghost, rl>>

-----------------------------------------------------------------------------
(* Specifications *)

\* handlers, events and the device's flush, common to every specification
Dispatch ==
    \/ on_pressed \/ on_pressed_return
    \/ sendReport \/ sendReport_echo \/ event_call

\* DualSenseController.__init__: the state after construction
Constructed ==
    /\ force_level = [ch \in Channels |-> 0]
    /\ mode_index = [ch \in Channels |-> 0]
    /\ handling = [ch \in Channels |-> FALSE]
    /\ sent = NewDevice(0, 0)
    /\ handle = "new"
    /\ stack = <<>>
    /\ exc = "none"
    /\ escaped = "none"
    /\ done_force = [ch \in Channels |-> 0]
    /\ done_mode = [ch \in Channels |-> 0]
    /\ close_calls = 0
    /\ rl_closes = 0
    /\ intr = {}
    /\ rl = "none"
    /\ query = NoQuery

\* the handlers in subs are subscribed once each, the others not at all
Registered(subs) ==
    callbacks = [b \in Buttons |-> IF b \in subs THEN <<b>> ELSE <<>>]

(* Force cycling: all four handlers subscribed as read_loop registers them, *)
(* cross and triangle pressed any number of times, every flush echoing any  *)
(* of the buttons of the run's echo set.                                     *)
InitForce ==
    /\ Constructed
    /\ Registered(Buttons)
    /\ ds = NewDevice(0, 0)
    /\ echo \in SUBSET {"cross", "triangle"}
    /\ faults = 0
    /\ calls = 0

NextForce ==
    \/ Dispatch
    \/ cycle_force_guard \/ cycle_force_body \/ cycle_force_finally
    \/ \E b \in {"cross", "triangle"}, v \in BOOLEAN : invoke(b, v, 0)

SpecForce == InitForce /\ [][NextForce]_vars

(* The session: construction, optional test-style subscriptions, open,      *)
(* read_loop with its interrupt, button events, direct handler calls and    *)
(* close, with a budget of top-level handler calls per run.                  *)
Init ==
    /\ Constructed
    /\ Registered({})
    /\ \E m \in {0, MaxMotor} : ds = NewDevice(m, m)
    /\ echo \in SUBSET Buttons
    /\ faults = 0
    /\ calls = MaxCalls

Next ==
    \/ Dispatch
    \/ cycle_force_guard \/ cycle_force_body \/ cycle_force_finally
    \/ cycle_mode_start \/ cycle_mode_finally
    \/ close \/ close_release
    \/ read_loop_register \/ read_loop_raise \/ read_loop_except
    \/ read_loop_finally \/ read_loop_exit
    \/ propagate \/ escape
    \/ open
    \/ \E b \in Buttons, v \in BOOLEAN : invoke(b, v, 1)
    \/ \E b \in Buttons, v \in BOOLEAN : fire(b, v)
    \/ call_close \/ call_read_loop \/ interrupt

Spec == Init /\ [][Next]_vars

(* Mode cycling, as test_cycle_modes sets it up: the circle and square      *)
(* handlers subscribed, both pressed any number of times, every flush       *)
(* echoing the buttons of the run's echo set.                               *)
InitMode ==
    /\ Constructed
    /\ Registered({"circle", "square"})
    /\ ds = NewDevice(0, 0)
    /\ echo \in SUBSET {"circle", "square"}
    /\ faults = 0
    /\ calls = 0

NextMode ==
    \/ Dispatch
    \/ cycle_mode_start \/ cycle_mode_finally
    \/ \E b \in {"circle", "square"}, v \in BOOLEAN : invoke(b, v, 0)

SpecMode == InitMode /\ [][NextMode]_vars

(* test_cycle_modes_no_recursion, the circle half: the circle handler is    *)
(* invoked TestRuns times, every flush re-firing circle and square.         *)
InitScenario ==
    /\ Constructed
    /\ Registered({"circle", "square"})
    /\ ds = NewDevice(0, 0)
    /\ echo = {"circle", "square"}
    /\ faults = 0
    /\ calls = TestRuns

NextScenario ==
    \/ Dispatch
    \/ cycle_mode_start \/ cycle_mode_finally
    \/ invoke("circle", TRUE, 1)

SpecScenario == InitScenario /\ [][NextScenario]_vars

(* Force cycling with a failing device: as SpecForce, and up to MaxFaults   *)
(* flushes of the run raise.                                                 *)
InitForceFault ==
    /\ Constructed
    /\ Registered(Buttons)
    /\ ds = NewDevice(0, 0)
    /\ echo \in SUBSET {"cross", "triangle"}
    /\ faults = MaxFaults
    /\ calls = 0

NextForceFault ==
    \/ Dispatch \/ sendReport_fail
    \/ cycle_force_guard \/ cycle_force_body \/ cycle_force_finally
    \/ propagate \/ escape
    \/ \E b \in {"cross", "triangle"}, v \in BOOLEAN : invoke(b, v, 0)

SpecForceFault == InitForceFault /\ [][NextForceFault]_vars

(* Mode cycling with a failing device: as SpecMode, and up to MaxFaults     *)
(* flushes of the run raise.                                                 *)
InitModeFault ==
    /\ Constructed
    /\ Registered({"circle", "square"})
    /\ ds = NewDevice(0, 0)
    /\ echo \in SUBSET {"circle", "square"}
    /\ faults = MaxFaults
    /\ calls = 0

NextModeFault ==
    \/ Dispatch \/ sendReport_fail
    \/ cycle_mode_start \/ cycle_mode_finally
    \/ propagate \/ escape
    \/ \E b \in {"circle", "square"}, v \in BOOLEAN : invoke(b, v, 0)

SpecModeFault == InitModeFault /\ [][NextModeFault]_vars

(* Handler calls to their end: all four handlers subscribed, up to MaxCalls *)
(* top-level handler calls, every flush re-firing the buttons held in the   *)
(* run, any subset of the four.  The program is one thread that keeps       *)
(* executing: a call that has a next statement takes it.                    *)
InitLive ==
    /\ Constructed
    /\ Registered(Buttons)
    /\ ds = NewDevice(0, 0)
    /\ echo \in SUBSET Buttons
    /\ faults = 0
    /\ calls = MaxCalls

Run ==
    \/ Dispatch
    \/ cycle_force_guard \/ cycle_force_body \/ cycle_force_finally
    \/ cycle_mode_start \/ cycle_mode_finally

NextLive ==
    \/ Run
    \/ \E b \in Buttons, v \in BOOLEAN : invoke(b, v, 1)

SpecLive == InitLive /\ [][NextLive]_vars /\ WF_vars(Run)

(* One channel: all four handlers subscribed, the two right-channel buttons *)
(* pressed any number of times, every flush re-firing those of them that    *)
(* are held.                                                                 *)
InitRight ==
    /\ Constructed
    /\ Registered(Buttons)
    /\ ds = NewDevice(0, 0)
    /\ echo \in SUBSET {"cross", "circle"}
    /\ faults = 0
    /\ calls = 0

NextRight ==
    \/ Dispatch
    \/ cycle_force_guard \/ cycle_force_body \/ cycle_force_finally
    \/ cycle_mode_start \/ cycle_mode_finally
    \/ \E b \in {"cross", "circle"}, v \in BOOLEAN : invoke(b, v, 0)

SpecRight == InitRight /\ [][NextRight]_vars

(* The script: debug_inputs.main on each kind of machine; while read_loop   *)
(* sleeps the device fires button events, cross possibly held, and the user *)
(* may interrupt.                                                            *)
InitMain ==
    /\ force_level = [ch \in Channels |-> 0]
    /\ mode_index = [ch \in Channels |-> 0]
    /\ handling = [ch \in Channels |-> FALSE]
    /\ sent = NewDevice(0, 0)
    /\ handle = "new"
    /\ \E machine \in Machines : stack = <<Frame("main", machine, "construct")>>
    /\ exc = "none"
    /\ escaped = "none"
    /\ done_force = [ch \in Channels |-> 0]
    /\ done_mode = [ch \in Channels |-> 0]
    /\ close_calls = 0
    /\ rl_closes = 0
    /\ intr = {}
    /\ rl = "none"
    /\ query = NoQuery
    /\ Registered({})
    /\ ds = NewDevice(0, 0)
    /\ echo \in SUBSET {"cross"}
    /\ faults = 0
    /\ calls = MaxCalls

NextMain ==
    \/ main_construct \/ main_open \/ main_read_loop \/ main_done
    \/ Dispatch
    \/ cycle_force_guard \/ cycle_force_body \/ cycle_force_finally
    \/ cycle_mode_start \/ cycle_mode_finally
    \/ close \/ close_release
    \/ read_loop_register \/ read_loop_raise \/ read_loop_except
    \/ read_loop_finally \/ read_loop_exit
    \/ propagate \/ escape
    \/ \E b \in Buttons, v \in BOOLEAN : fire(b, v)
    \/ interrupt

SpecMain == InitMain /\ [][NextMain]_vars

(* Stick queries: get_joystick_state called with names in every mix of      *)
(* case, misspelt names, and snapshots over the axis range; one query per   *)
(* run, the method keeping nothing from one call to the next.               *)
InitQuery ==
    /\ Constructed
    /\ Registered({})
    /\ \E m \in {0, MaxMotor} : ds = NewDevice(m, m)
    /\ echo = {}
    /\ faults = 0
    /\ calls = 1

NextQuery == call_get_joystick_state

SpecQuery == InitQuery /\ [][NextQuery]_vars

-----------------------------------------------------------------------------
(* Claims *)

\* frames of cycle_<kind> on channel ch that have stepped the counter and
\* not yet ended
InFlight(op, ch) ==
    Cardinality({i \in 1..Depth : /\ stack[i].op = op
                                  /\ stack[i].arg = ch
                                  /\ stack[i].pc = "finally"})

\* C1: from a fresh session, after k completed outermost cycle_force calls on
\* a channel its force_level is k mod 7; while such a call is between its
\* increment and its end the level is one step ahead, and never more, also
\* when the flush re-fires the originating button.
C1_ForceLevelCountsCalls ==
    \A ch \in Channels :
        /\ InFlight("cycle_force", ch) <= 1
        /\ force_level[ch]
             = (done_force[ch] + InFlight("cycle_force", ch)) % NumForceLevels

\* C1 witness: the seventh call on the right channel, with cross echoed by
\* its flush, has wrapped the level from 6 to 0
C1_Witness ==
    /\ "cross" \in echo
    /\ At("cycle_force", "finally")
    /\ Top.arg = "r2"
    /\ done_force["r2"] = 6
    /\ force_level["r2"] = 0

\* C2: a cycle_force invoked while a cycle_force of the same channel is in
\* progress returns at once: force_level, the guard, the staged and the
\* transmitted device state are unchanged and nothing is called.
C2_NestedCycleForceIsNoOp ==
    [][(Running("cycle_force", "start") /\ ~Top.outer)
        => /\ stack' = Popped
           /\ UNCHANGED <<force_level, mode_index, handling, callbacks, ds, sent>>]_vars

\* C2 witness: the flush of cycle_r2_force has re-fired cross and the nested
\* cycle_r2_force is about to test the guard
C2_Witness ==
    /\ Running("cycle_force", "start")
    /\ ~Top.outer
    /\ Top.arg = "r2"
    /\ stack[Depth - 1].arg = "cross"
    /\ force_level["r2"] = 3

\* C3: with the handler subscribed, no cycle_mode runs nested inside a
\* cycle_mode of the same channel, and mode_index is the number of outermost
\* calls modulo the number of modes (one ahead while a call is in flight).
C3_ModeIndexCountsCalls ==
    /\ \A i \in 1..Depth : stack[i].op = "cycle_mode" => stack[i].outer
    /\ \A ch \in Channels :
          /\ InFlight("cycle_mode", ch) <= 1
          /\ mode_index[ch] = (done_mode[ch] + InFlight("cycle_mode", ch)) % NumModes

\* C3 witness: the third call on the left channel wraps its index to 0 while
\* square is echoed
C3_Witness ==
    /\ "square" \in echo
    /\ At("cycle_mode", "finally")
    /\ Top.arg = "l2"
    /\ done_mode["l2"] = NumModes - 1
    /\ mode_index["l2"] = 0

\* C4: after k of the TestRuns invocations of the circle handler have
\* returned, the right channel's mode_index is k mod N; no invocation raises
\* and the nesting never exceeds one cycle_mode per channel.
C4_CircleHandlerAdvancesOncePerCall ==
    /\ Depth = 0 => mode_index["r2"] = (TestRuns - calls) % NumModes
    /\ Depth > 0 => mode_index["r2"] \in {(TestRuns - calls - 1) % NumModes,
                                          (TestRuns - calls) % NumModes}
    /\ exc = "none" /\ escaped = "none"
    /\ Depth <= 2 * 4

\* C4 witness: all TestRuns invocations have returned
C4_Witness ==
    /\ Depth = 0
    /\ calls = 0
    /\ mode_index["r2"] = TestRuns % NumModes

\* the device state close() is meant to leave: motors 0, triggers Off, forces 0
Zeroed == NewDevice(0, 0)

\* close() has staged and flushed and is about to release the handle
Releasing == Running("close", "release")

\* C5 (as claimed): when close() releases the handle, the state last flushed
\* to the device has both motors at 0, both triggers Off and every force 0.
C5_ReleaseAfterZeroFlush == Releasing => sent = Zeroed

\* C6 (as claimed): no close() raises, and when each of the first two close()
\* calls returns the motors and all trigger forces of the device are zero.
C6_CloseTwiceLeavesZero ==
    /\ Active("close", "") => exc = "none"
    /\ (Releasing /\ close_calls <= 2) =>
          \A d \in {ds, sent} :
              /\ d.rightMotor = 0 /\ d.leftMotor = 0
              /\ d.triggerR.forces = ZeroForces
              /\ d.triggerL.forces = ZeroForces

\* C7 (as claimed): when close() returns, force_level and mode_index of both
\* channels are 0 and both guards are false.
C7_CloseResetsSession ==
    Releasing => \A ch \in Channels :
                    force_level[ch] = 0 /\ mode_index[ch] = 0 /\ ~handling[ch]

\* C8: read_loop ends only after an interrupt; when the only interrupt came
\* during the sleep loop, read_loop calls close() at most once, does not
\* raise, and has called close() exactly once when it has returned.
C8_InterruptInSleepClosesOnce ==
    /\ rl \in {"returned", "raised"} => intr # {}
    /\ intr = {"sleep"} => rl_closes <= 1 /\ rl # "raised"
    /\ (intr = {"sleep"} /\ rl = "returned") => rl_closes = 1 /\ exc = "none"

\* C8 witness: interrupted in its sleep, read_loop has run close() and returned
C8_Witness ==
    /\ intr = {"sleep"}
    /\ rl = "returned"
    /\ Depth = 0
    /\ handle = "released"

\* C9 (as claimed): whenever read_loop has exited, it has invoked close().
C9_CloseOnEveryExit == rl \in {"returned", "raised"} => rl_closes >= 1

\* the cycle operation the claim binds to each button
Bound(b) ==
    CASE b = "cross"    -> <<"cycle_force", "r2">>
      [] b = "circle"   -> <<"cycle_mode", "r2">>
      [] b = "square"   -> <<"cycle_mode", "l2">>
      [] b = "triangle" -> <<"cycle_force", "l2">>

\* C10: a handler called with True calls exactly the cycle operation bound to
\* its button; called with False it returns at once, leaving force_level,
\* mode_index, the guards, the subscriptions and the staged and transmitted
\* device state as they were, and calling nothing.
C10_HandlerActsOnPressOnly ==
    [][Running("handler", "start")
        => /\ UNCHANGED <<force_level, mode_index, handling, callbacks, ds, sent>>
           /\ IF Top.val
              THEN /\ Len(stack') = Depth + 1
                   /\ stack'[Depth + 1].op = Bound(Top.arg)[1]
                   /\ stack'[Depth + 1].arg = Bound(Top.arg)[2]
                   /\ stack'[Depth + 1].pc = "start"
              ELSE stack' = Popped]_vars

\* C10 witness: while read_loop sleeps the device has fired square's event
\* with False and the subscribed handler is about to run
C10_Witness ==
    /\ Running("handler", "start")
    /\ ~Top.val
    /\ Top.arg = "square"
    /\ Depth = 3
    /\ stack[1].op = "read_loop"

\* C12: a stick query fails exactly when the name, compared without regard
\* to case, is neither left nor right; for a name that is left or right in
\* any mix of case and a snapshot that has the axes it returns (lx, ly) or
\* (rx, ry); and it changes nothing of the session or the device.
IsWord(name, word) ==
    /\ Len(name) = Len(word)
    /\ \A i \in 1..Len(word) : name[i] \in {word[i], upper_char(word[i])}

C12_StickQuery ==
    [][query' /= query =>
        LET q == query'
            left == IsWord(q.stick, Left)
            right == IsWord(q.stick, Right)
        IN /\ ~(left \/ right) =>
                  /\ q.out.kind = "ValueError"
                  /\ q.out.msg = "stick must be 'left' or 'right'"
           /\ (left \/ right) =>
                  q.out.msg /= "stick must be 'left' or 'right'"
           /\ (left /\ q.state.has) =>
                  q.out = Outcome("value", "", q.state.lx, q.state.ly)
           /\ (right /\ q.state.has) =>
                  q.out = Outcome("value", "", q.state.rx, q.state.ry)
           /\ UNCHANGED <<session, callbacks, ds, sent, handle>>]_vars

C12_Witness ==
    /\ query.stick = <<"L", "E", "F", "T">>
    /\ query.state = Snapshot(TRUE, 1, 0 - 1, 0, 1)
    /\ query.out = Outcome("value", "", 1, 0 - 1)

\* C11: on a machine without the library or without a device that can be
\* initialised, construction or open() raises, nothing catches the error,
\* and the script ends with it without ever entering read_loop: read_loop
\* runs only on a machine where both succeeded, and a run that ended
\* without read_loop ended with the error.
Machine == stack[1].arg

C11_FailedOpenNeverEntersReadLoop ==
    /\ (Depth > 0 /\ Machine /= "ok") =>
          /\ rl = "none"
          /\ handle = "new"
          /\ Depth = 1 /\ Top.pc \in {"construct", "open"}
          /\ Machine = "nolib" => Top.pc = "construct"
          /\ \A b \in Buttons : callbacks[b] = <<>>
    /\ (Depth = 0 /\ exc \in {"ImportError", "DeviceError"}) =>
          /\ rl = "none" /\ handle = "new"
    /\ (Depth = 0 /\ exc = "none" /\ rl = "none") =>
          escaped \in {"ImportError", "DeviceError"}
    /\ escaped \in {"ImportError", "DeviceError"} =>
          /\ Depth = 0 /\ rl = "none" /\ handle = "new"
          /\ ~ENABLED NextMain

C11_Witness ==
    /\ Depth = 0
    /\ escaped = "DeviceError"
    /\ rl = "none"

\* C13: the guard of a channel is set exactly while a cycle_force call on
\* that channel is between taking the guard and the end of its finally, so
\* it is false whenever no such call is on the stack, also after a flush
\* that raised, and a top-level call never finds it set.
Holding(ch) ==
    Cardinality({i \in 1..Depth : /\ stack[i].op = "cycle_force"
                                  /\ stack[i].arg = ch
                                  /\ stack[i].pc \in {"try", "finally"}})

C13_GuardOnlyDuringCall ==
    \A ch \in Channels :
        /\ handling[ch] <=> Holding(ch) = 1
        /\ Holding(ch) <= 1
        /\ Depth = 0 => ~handling[ch]
        /\ \A i \in 1..Depth :
              (stack[i].op = "cycle_force" /\ stack[i].arg = ch
                 /\ stack[i].pc = "start" /\ stack[i].outer) => ~handling[ch]

C13_Witness ==
    /\ Depth = 0
    /\ escaped = "IOError"
    /\ force_level["r2"] = 2
    /\ ~handling["r2"]

\* C17: a mode-button handler that is subscribed once when cycle_mode is
\* called is off its event for the whole flush and subscribed exactly once
\* again when the call has ended, whether the flush returned or raised; so
\* whenever no cycle_mode call of a channel is in progress its handler is
\* subscribed exactly once.
C17_SubscriptionRestored ==
    \A ch \in Channels :
        LET b == ModeButton(ch)
        IN /\ InFlight("cycle_mode", ch) <= 1
           /\ InFlight("cycle_mode", ch) = 1 => callbacks[b] = <<>>
           /\ InFlight("cycle_mode", ch) = 0 => callbacks[b] = <<b>>

C17_Witness ==
    /\ Depth = 0
    /\ escaped = "IOError"
    /\ mode_index["r2"] = 2
    /\ callbacks["circle"] = <<"circle">>

\* C16: in every reachable state each channel's force_level is one of
\* 0..6 and its mode_index is a valid index of the list of trigger modes.
C16_CountersInRange ==
    \A ch \in Channels :
        /\ force_level[ch] \in 0..(NumForceLevels - 1)
        /\ mode_index[ch] \in 0..(NumModes - 1)

\* cycle_r2_force has stepped the level from 6, the value last flushed, to
\* 0 and is about to flush it; the left mode index stands at the last mode
C16_Witness ==
    /\ Running("sendReport", "send")
    /\ stack[Depth - 1].op = "cycle_force" /\ stack[Depth - 1].arg = "r2"
    /\ force_level["r2"] = 0
    /\ ds.triggerR.forces[ForceSlot] = 0
    /\ sent.triggerR.forces[ForceSlot] = NumForceLevels - 1
    /\ mode_index["l2"] = NumModes - 1

\* C14: with all four handlers subscribed and every flush re-firing any
\* subset of the buttons, each of the four cycle operations is active at
\* most once at a time, so the nesting is bounded, and every top-level
\* handler call comes to its end, leaving every guard clear and every mode
\* handler subscribed.
NestingBounded ==
    /\ \A ch \in Channels : Holding(ch) <= 1 /\ InFlight("cycle_mode", ch) <= 1
    /\ Depth <= 4 * Cardinality(Buttons) + 2

ChannelsIdle ==
    /\ Depth = 0
    /\ \A ch \in Channels : ~handling[ch]
    /\ \A b \in Buttons : callbacks[b] = <<b>>

C14_HandlerCallsTerminate == []NestingBounded /\ (Depth > 0 ~> ChannelsIdle)

C14_Witness ==
    /\ Depth = 4 * Cardinality(Buttons) + 2
    /\ \A ch \in Channels : Holding(ch) = 1 /\ InFlight("cycle_mode", ch) = 1

\* C18: a button press bound to one channel changes only that channel: when
\* the first top-level handler call of a run, made on a fresh session, is
\* about to return, the other channel's force_level and mode_index are
\* still 0.
Other(ch) == IF ch = "r2" THEN "l2" ELSE "r2"

C18_PressChangesOwnChannelOnly ==
    (Depth = 1 /\ At("handler", "ret") /\ calls = MaxCalls - 1) =>
        LET other == Other(Binding(Top.arg).ch)
        IN force_level[other] = 0 /\ mode_index[other] = 0

\* C15: when a top-level cycle_force call on a channel completes, here the
\* first one on a fresh session, that trigger is Rigid with slot 6 holding
\* the channel's new force_level, its other six slots and the other
\* trigger are as they were, and the staged values have been flushed.
C15_CycleForceEffect ==
    (Depth = 2 /\ Running("cycle_force", "finally") /\ calls = MaxCalls - 1) =>
        LET ch == Top.arg
            own == ds[Trig(ch)]
            other == Trig(IF ch = "r2" THEN "l2" ELSE "r2")
        IN /\ own.mode = "Rigid"
           /\ own.forces[ForceSlot] = force_level[ch]
           /\ \A i \in 0..(NumSlots - 1) :
                 i /= ForceSlot => own.forces[i] = Zeroed[Trig(ch)].forces[i]
           /\ ds[other] = Zeroed[other]
           /\ sent = ds

\* C19: whenever a top-level cycle_mode call on a channel has completed,
\* the mode staged on that channel's trigger is the entry of the list of
\* trigger modes at the channel's mode_index, whatever cycle_force and
\* cycle_mode calls, re-fired ones included, ran on the channel.
C19_ModeIndexAgreesWithDevice ==
    (Depth = 2 /\ Running("cycle_mode", "finally")) =>
        ds[Trig(Top.arg)].mode = ModeAt(mode_index[Top.arg])

\* C20: a cycle_mode call made while the channel's handler is not
\* subscribed fails atomically: the step that raises leaves mode_index, the
\* staged mode and the callback lists as they were and flushes nothing.
C20_FailedCycleModeChangesNothing ==
    [][(/\ Running("cycle_mode", "start")
        /\ ~Subscribed(callbacks[ModeButton(Top.arg)], ModeButton(Top.arg)))
          => (/\ exc' = "ValueError"
              /\ UNCHANGED <<mode_index, ds, callbacks, sent>>)]_vars

=============================================================================
